---------------------------- MODULE Spec2Model ----------------------------
(***************************************************************************)
(* The ROI calculation of the marketing cost calculator (the `calc` memo   *)
(* of Page) and the results renderer that displays it.                     *)
(*                                                                         *)
(* Every quantity of the program is a JavaScript number, an IEEE-754       *)
(* binary floating-point value.  The model keeps that arithmetic: finite   *)
(* values with a bounded number of significant bits and a bounded          *)
(* exponent, round-to-nearest-even after every operation, gradual          *)
(* underflow to 0, overflow to Infinity, and NaN.  The format is binary64  *)
(* scaled down (Precision significant bits instead of 53) so that the      *)
(* arithmetic stays inside the checker's integers.  The sign of zero is    *)
(* not kept: `===` does not see it and no input is -0.                     *)
(*                                                                         *)
(* Four state machines share the variables: Spec (one calculation and one  *)
(* rendering, on inputs of the scaled format), MemoSpec (the state setters *)
(* of the page and the memoised calculation), EditSpec (the handlers of    *)
(* the input fields) and EnSpec (EditSpec and the first render of          *)
(* src/app/page.tsx).  The last three start from the default configuration *)
(* of the page and compute in binary64 itself, bit for bit.                *)
(***************************************************************************)
EXTENDS Integers, Sequences, FiniteSets, TLC

\* ------------------------------------------------------------------------
\* The number format
\* ------------------------------------------------------------------------

\* Significant bits of a finite number (binary64: 53).
Precision == 5
\* The smallest positive number is 2^-MinExp (binary64: 2^-1074).
MinExp == 4
\* The largest finite number is (2^Precision - 1) * 2^(MaxShift - MinExp).
MaxShift == 8

Pow2(n) == 2 ^ n

\* 1.0 in units of the smallest positive number.
One == Pow2(MinExp)

\* The largest finite number, in units of the smallest positive number.
MaxFiniteK == (Pow2(Precision) - 1) * Pow2(MaxShift)

\* A number of the scaled format: finite (k units of 2^-MinExp), an infinity,
\* or NaN.
Fin(k) == [c |-> "fin", k |-> k]
Infinity == [c |-> "inf", k |-> 1]
NegInfinity == [c |-> "inf", k |-> -1]
NaN == [c |-> "nan", k |-> 0]
Zero == Fin(0)

isFinite(x) == x.c = "fin" \/ x.c = "b64"
isNaN(x) == x.c = "nan"
\* x === 0
isZero(x) == x.c = "fin" /\ x.k = 0
Sign(x) == IF x.k < 0 THEN -1 ELSE IF x.k > 0 THEN 1 ELSE 0
Abs(n) == IF n < 0 THEN -n ELSE n

\* The binade of the non-negative rational num/den: the least s >= 0 with
\* num/den < 2^(Precision + s).  Numbers of binade s are multiples of 2^s.
RECURSIVE ShiftOf(_, _, _)
ShiftOf(num, den, s) ==
    IF num < den * Pow2(Precision + s) THEN s ELSE ShiftOf(num, den, s + 1)

\* Round-to-nearest, ties-to-even, of the rational sgn * num/den (num >= 0,
\* den > 0, in units of 2^-MinExp); overflow gives the infinity of that sign.
Round(sgn, num, den) ==
    LET s == ShiftOf(num, den, 0)
        u == den * Pow2(s)
        lo == num \div u
        rem == num - lo * u
        m == IF 2 * rem > u THEN lo + 1
             ELSE IF 2 * rem < u THEN lo
             ELSE IF lo % 2 = 0 THEN lo ELSE lo + 1
        k == m * Pow2(s)
    IN  IF k > MaxFiniteK
        THEN (IF sgn < 0 THEN NegInfinity ELSE Infinity)
        ELSE Fin(sgn * k)

\* The number nearest to the rational num/den (a numeric literal, or the
\* value a text parses to).
Num(num, den) == Round(IF num < 0 THEN -1 ELSE 1, Abs(num) * One, den)

\* ------------------------------------------------------------------------
\* binary64, bit for bit
\* ------------------------------------------------------------------------
\* The numbers of the page itself (the default configuration, the constants
\* 100, 10000 and 1000000 of the input fields, Number.MAX_VALUE) need the
\* real format.  A finite non-zero binary64 number is
\*     [c |-> "b64", k |-> sign, m |-> significand, e |-> exponent]
\* with value k * m * 2^e, where m is a natural number of at most
\* Precision64 bits held as a sequence of limbs (least significant first),
\* normalised to exactly Precision64 bits unless e is the least exponent.
\* Zero, the infinities and NaN are those of the scaled format.

\* Significant bits of a binary64 number.
Precision64 == 53
\* The smallest positive binary64 number is 2^-MinExp64.
MinExp64 == 1074
\* The largest finite binary64 number is (2^53 - 1) * 2^MaxExp64.
MaxExp64 == 971

\* Bits of a limb, and the limb base.
LimbBits == 15
LimbBase == Pow2(LimbBits)

\* The natural number n as limbs.
RECURSIVE BigOfNat(_)
BigOfNat(n) == IF n = 0 THEN <<>> ELSE <<n % LimbBase>> \o BigOfNat(n \div LimbBase)

Limb(a, i) == IF i <= Len(a) THEN a[i] ELSE 0

\* a without leading zero limbs.
RECURSIVE BigTrim(_)
BigTrim(a) ==
    IF a = <<>> \/ a[Len(a)] # 0 THEN a ELSE BigTrim(SubSeq(a, 1, Len(a) - 1))

RECURSIVE BigAddFrom(_, _, _, _)
BigAddFrom(a, b, i, carry) ==
    IF i > Len(a) /\ i > Len(b) THEN (IF carry = 0 THEN <<>> ELSE <<carry>>)
    ELSE LET t == Limb(a, i) + Limb(b, i) + carry
         IN  <<t % LimbBase>> \o BigAddFrom(a, b, i + 1, t \div LimbBase)

\* a + b
BigAdd(a, b) == BigAddFrom(a, b, 1, 0)

RECURSIVE BigSubFrom(_, _, _, _)
BigSubFrom(a, b, i, borrow) ==
    IF i > Len(a) THEN <<>>
    ELSE LET t == Limb(a, i) - Limb(b, i) - borrow
         IN  <<t % LimbBase>> \o BigSubFrom(a, b, i + 1, IF t < 0 THEN 1 ELSE 0)

\* a - b, for a >= b
BigSub(a, b) == BigTrim(BigSubFrom(a, b, 1, 0))

RECURSIVE BigCmpFrom(_, _, _)
BigCmpFrom(a, b, i) ==
    IF i = 0 THEN 0
    ELSE IF a[i] < b[i] THEN -1
    ELSE IF a[i] > b[i] THEN 1
    ELSE BigCmpFrom(a, b, i - 1)

\* -1, 0 or 1 as a < b, a = b or a > b
BigCmp(a, b) ==
    IF Len(a) < Len(b) THEN -1
    ELSE IF Len(a) > Len(b) THEN 1
    ELSE BigCmpFrom(a, b, Len(a))

RECURSIVE BigMulSmallFrom(_, _, _, _)
BigMulSmallFrom(a, n, i, carry) ==
    IF i > Len(a) THEN (IF carry = 0 THEN <<>> ELSE <<carry>>)
    ELSE LET t == a[i] * n + carry
         IN  <<t % LimbBase>> \o BigMulSmallFrom(a, n, i + 1, t \div LimbBase)

\* a * n, for 0 < n < LimbBase
BigMulSmall(a, n) == BigMulSmallFrom(a, n, 1, 0)

\* a * LimbBase^n
BigShiftLimbs(a, n) == IF a = <<>> THEN <<>> ELSE [i \in 1..n |-> 0] \o a

RECURSIVE BigMulFrom(_, _, _)
BigMulFrom(a, b, j) ==
    IF j > Len(b) THEN <<>>
    ELSE BigAdd(IF b[j] = 0 THEN <<>> ELSE BigShiftLimbs(BigMulSmall(a, b[j]), j - 1),
                BigMulFrom(a, b, j + 1))

\* a * b
BigMul(a, b) == BigMulFrom(a, b, 1)

\* a * 2^n
BigShl(a, n) == BigShiftLimbs(BigMulSmall(a, Pow2(n % LimbBits)), n \div LimbBits)

\* a \div 2^n
BigShr(a, n) ==
    LET q == n \div LimbBits
        r == n % LimbBits
        hi == IF q >= Len(a) THEN <<>> ELSE SubSeq(a, q + 1, Len(a))
    IN  BigTrim([i \in 1..Len(hi) |->
                    (hi[i] \div Pow2(r)) + (Limb(hi, i + 1) % Pow2(r)) * Pow2(LimbBits - r)])

\* Bit i of a (bit 0 is the least significant).
BigBit(a, i) == (Limb(a, i \div LimbBits + 1) \div Pow2(i % LimbBits)) % 2

RECURSIVE BitLen(_)
BitLen(n) == IF n = 0 THEN 0 ELSE 1 + BitLen(n \div 2)

\* The number of bits of a.
BigBits(a) == IF a = <<>> THEN 0 ELSE LimbBits * (Len(a) - 1) + BitLen(a[Len(a)])

\* The greatest digit t < LimbBase with d * t <= rem, found bit by bit from
\* `bit` down; acc holds the bits already decided.
RECURSIVE BigDigitFrom(_, _, _, _)
BigDigitFrom(rem, d, bit, acc) ==
    IF bit < 0 THEN acc
    ELSE IF BigCmp(BigMulSmall(d, acc + Pow2(bit)), rem) <= 0
         THEN BigDigitFrom(rem, d, bit - 1, acc + Pow2(bit))
         ELSE BigDigitFrom(rem, d, bit - 1, acc)

\* Long division, limb by limb from limb i of n down: quotient so far q,
\* remainder so far r.
RECURSIVE BigDivFrom(_, _, _, _, _)
BigDivFrom(n, d, i, q, r) ==
    IF i = 0 THEN [q |-> BigTrim(q), r |-> r]
    ELSE LET r2 == BigTrim(<<n[i]>> \o r)
             digit == BigDigitFrom(r2, d, LimbBits - 1, 0)
         IN  BigDivFrom(n, d, i - 1, <<digit>> \o q,
                        IF digit = 0 THEN r2 ELSE BigSub(r2, BigMulSmall(d, digit)))

\* [q |-> n \div d, r |-> n % d], for d > 0
BigDivMod(n, d) == BigDivFrom(n, d, Len(n), <<>>, <<>>)

Max(a, b) == IF a >= b THEN a ELSE b
Min(a, b) == IF a <= b THEN a ELSE b

\* The binary64 number with sign sgn, significand m and exponent ex: zero
\* when m is zero, the infinity of the sign when ex is out of range.
Pack64(sgn, m, ex) ==
    IF m = <<>> THEN [c |-> "fin", k |-> 0]
    ELSE IF ex > MaxExp64 THEN [c |-> "inf", k |-> sgn]
    ELSE [c |-> "b64", k |-> sgn, m |-> m, e |-> ex]

\* The rounded significand m1 may have one bit too many (a carry out of
\* the rounding): its last bit is then 0 and is dropped.
RoundCarry(sgn, m1, ex) ==
    Pack64(sgn,
           IF BigBits(m1) > Precision64 THEN BigShr(m1, 1) ELSE m1,
           IF BigBits(m1) > Precision64 THEN ex + 1 ELSE ex)

\* Ties to even: q is the significand before rounding, half the first
\* dropped bit, low whether anything lies below that bit.
RoundEven(sgn, q, ex, half, low) ==
    RoundCarry(sgn,
               IF half /\ (low \/ BigBit(q, 0) = 1) THEN BigAdd(q, <<1>>) ELSE q,
               ex)

\* Rounding of sgn * (n + f) * 2^e that drops the last `drop` bits of n.
RoundDrop(sgn, n, e, sticky, drop) ==
    RoundEven(sgn,
              IF drop <= 0 THEN BigShl(n, -drop) ELSE BigShr(n, drop),
              e + drop,
              drop > 0 /\ BigBit(n, drop - 1) = 1,
              sticky \/ (drop > 1 /\ BigShl(BigShr(n, drop - 1), drop - 1) # n))

\* The binary64 number nearest to sgn * (n + f) * 2^e, ties to even, where n
\* is a natural number (limbs) and f a fraction in [0, 1) that is not 0 iff
\* sticky; gradual underflow to 0, overflow to the infinity of the sign.
Round64(sgn, n, e, sticky) ==
    RoundDrop(sgn, n, e, sticky, Max(BigBits(n) - Precision64, (-MinExp64) - e))

\* A finite number of either format as a binary64 number (every number of
\* the scaled format is a binary64 number).
Normal64(sgn, m, e, shift) == Pack64(sgn, BigShl(m, shift), e - shift)

Exact64(sgn, m, e) == Normal64(sgn, m, e, Precision64 - BigBits(m))

To64(x) ==
    IF x.c = "b64" THEN x
    ELSE Exact64(IF x.k < 0 THEN -1 ELSE 1,
                 BigOfNat(IF x.k < 0 THEN -x.k ELSE x.k), -MinExp)

\* a * b for finite binary64 numbers a and b
mul64Of(a, b) ==
    IF a.k = 0 \/ b.k = 0 THEN [c |-> "fin", k |-> 0]
    ELSE Round64(a.k * b.k, BigMul(a.m, b.m), a.e + b.e, FALSE)

\* x * y for finite x and y
mul64(x, y) == mul64Of(To64(x), To64(y))

\* The quotient of a by b from the long division of a.m * 2^shift by b.m.
div64Shifted(a, b, shift, qr) ==
    Round64(a.k * b.k, qr.q, a.e - b.e - shift, qr.r # <<>>)

div64By(a, b, shift) ==
    div64Shifted(a, b, shift, BigDivMod(BigShl(a.m, shift), b.m))

\* a / b for finite binary64 numbers a and b, b not zero
div64Of(a, b) ==
    IF a.k = 0 THEN [c |-> "fin", k |-> 0]
    ELSE div64By(a, b, Max(0, Precision64 + 2 + BigBits(b.m) - BigBits(a.m)))

\* x / y for finite x and finite non-zero y
div64(x, y) == div64Of(To64(x), To64(y))

\* hi + lo for hi.m * 2^(hi.e - lo.e) = hm, which compares as cmp with
\* lo.m: sign and magnitude of the exact sum, in units of 2^lo.e.
add64Aligned(hi, lo, hm, cmp) ==
    [k |-> IF hi.k = lo.k \/ cmp >= 0 THEN hi.k ELSE lo.k,
     m |-> IF hi.k = lo.k THEN BigAdd(hm, lo.m)
           ELSE IF cmp >= 0 THEN BigSub(hm, lo.m)
           ELSE BigSub(lo.m, hm),
     e |-> lo.e,
     sticky |-> FALSE]

add64Near(hi, lo, hm) == add64Aligned(hi, lo, hm, BigCmp(hm, lo.m))

\* When lo lies wholly below the rounding bits of hi it only tells which way
\* the sum leans.
add64Far(hi, lo) ==
    [k |-> hi.k,
     m |-> IF hi.k = lo.k THEN BigShl(hi.m, 2)
           ELSE BigSub(BigShl(hi.m, 2), <<1>>),
     e |-> hi.e - 2,
     sticky |-> TRUE]

add64Rounded(sum) == Round64(sum.k, sum.m, sum.e, sum.sticky)

\* hi + lo for finite non-zero binary64 numbers with hi.e >= lo.e
add64Ordered(hi, lo) ==
    add64Rounded(IF hi.e - lo.e > Precision64 + 3 THEN add64Far(hi, lo)
                 ELSE add64Near(hi, lo, BigShl(hi.m, hi.e - lo.e)))

\* a + b for finite binary64 numbers a and b
add64Of(a, b) ==
    IF a.k = 0 THEN b
    ELSE IF b.k = 0 THEN a
    ELSE add64Ordered(IF a.e >= b.e THEN a ELSE b, IF a.e >= b.e THEN b ELSE a)

\* x + y for finite x and y
add64(x, y) == add64Of(To64(x), To64(y))

\* ------------------------------------------------------------------------
\* Arithmetic of the language, on numbers of either format
\* ------------------------------------------------------------------------

\* x * y
fmul(x, y) ==
    IF isNaN(x) \/ isNaN(y) THEN NaN
    ELSE IF ~isFinite(x) \/ ~isFinite(y)
         THEN (IF isZero(x) \/ isZero(y) THEN NaN
               ELSE IF Sign(x) * Sign(y) < 0 THEN NegInfinity ELSE Infinity)
    ELSE IF x.c = "b64" \/ y.c = "b64" THEN mul64(x, y)
    ELSE Round(Sign(x) * Sign(y), Abs(x.k) * Abs(y.k), One)

\* x + y
fadd(x, y) ==
    IF isNaN(x) \/ isNaN(y) THEN NaN
    ELSE IF ~isFinite(x) /\ ~isFinite(y) THEN (IF x.k = y.k THEN x ELSE NaN)
    ELSE IF ~isFinite(x) THEN x
    ELSE IF ~isFinite(y) THEN y
    ELSE IF x.c = "b64" \/ y.c = "b64" THEN add64(x, y)
    ELSE Round(IF x.k + y.k < 0 THEN -1 ELSE 1, Abs(x.k + y.k), 1)

\* -x
fneg(x) == IF isNaN(x) THEN NaN ELSE [x EXCEPT !.k = -x.k]

\* x - y
fsub(x, y) == fadd(x, fneg(y))

\* x / y
fdiv(x, y) ==
    IF isNaN(x) \/ isNaN(y) THEN NaN
    ELSE IF ~isFinite(x)
         THEN (IF ~isFinite(y) THEN NaN
               ELSE IF Sign(x) * Sign(y) < 0 THEN NegInfinity ELSE Infinity)
    ELSE IF ~isFinite(y) THEN Zero
    ELSE IF isZero(y)
         THEN (IF isZero(x) THEN NaN
               ELSE IF Sign(x) < 0 THEN NegInfinity ELSE Infinity)
    ELSE IF x.c = "b64" \/ y.c = "b64" THEN div64(x, y)
    ELSE Round(Sign(x) * Sign(y), Abs(x.k) * One, Abs(y.k))

\* ------------------------------------------------------------------------
\* Formatting helpers of the results renderer
\* ------------------------------------------------------------------------

\* Number.prototype.toFixed(digits): the decimal with `digits` fraction
\* digits nearest to x, a tie going to the larger magnitude; n is that
\* decimal's digits read as an integer.  Non-finite numbers print their name.
toFixed(x, digits) ==
    IF isNaN(x) THEN [txt |-> "NaN", neg |-> FALSE, n |-> 0, digits |-> 0]
    ELSE IF ~isFinite(x)
         THEN [txt |-> "Infinity", neg |-> x.k < 0, n |-> 0, digits |-> 0]
    ELSE LET scale == IF digits = 0 THEN 1 ELSE 10
         IN  [txt |-> "digits", neg |-> x.k < 0,
              n |-> (2 * Abs(x.k) * scale + One) \div (2 * One),
              digits |-> digits]

\* money(n): "$0" for a non-finite n, else the amount rounded to a whole
\* number of dollars.
money(n) ==
    IF ~isFinite(n) THEN [fmt |-> "money", v |-> toFixed(Zero, 0)]
    ELSE [fmt |-> "money", v |-> toFixed(n, 0)]

\* pct(n, digits): "0%" for a non-finite n, else (n * 100).toFixed(digits)
\* followed by "%".
pct(n, digits) ==
    IF ~isFinite(n) THEN [fmt |-> "pct", v |-> toFixed(Zero, 0)]
    ELSE [fmt |-> "pct", v |-> toFixed(fmul(n, Num(100, 1)), digits)]

\* num(n, digits): "0" for a non-finite n, else n.toFixed(digits).
num(n, digits) ==
    IF ~isFinite(n) THEN [fmt |-> "num", v |-> toFixed(Zero, 0)]
    ELSE [fmt |-> "num", v |-> toFixed(n, digits)]

\* The placeholder the renderer writes instead of a number.
Dash == [fmt |-> "dash", v |-> toFixed(Zero, 0)]

\* ------------------------------------------------------------------------
\* calc: the ROI calculation (the body of the useMemo)
\* ------------------------------------------------------------------------

\* marketingBudget that takes marketingPct for a whole-number percentage.
marketingBudgetPercent(revenue, marketingPct) ==
    fmul(revenue, fdiv(marketingPct, Num(100, 1)))

\* marketingBudget with the fraction clamped to 100%.
marketingBudgetClamped(revenue, marketingPct) ==
    IF marketingPct.c = "fin" /\ marketingPct.k > One THEN revenue
    ELSE fmul(revenue, marketingPct)

\* C2 = C1*B2
marketingBudget(revenue, marketingPct) == fmul(revenue, marketingPct)
\* C3 = C2*B3
contentBudget(mktBudget, contentPct) == fmul(mktBudget, contentPct)
\* C5 = C3*B5
demoBudgetYear1(cntBudget, demoAllocPct) == fmul(cntBudget, demoAllocPct)
\* C6 = C5*B6
\* The share of year-one production that is kept, not the replaced one.
replacedProductionKept(demoY1, replacementPct) ==
    fmul(demoY1, fsub(Num(1, 1), replacementPct))

replacedProduction(demoY1, replacementPct) == fmul(demoY1, replacementPct)
\* demoBudgetYear2 with the operands of the subtraction exchanged.
demoBudgetYear2Swapped(demoY1, replaced) == fsub(replaced, demoY1)

\* C9 = C5-C6
demoBudgetYear2(demoY1, replaced) == fsub(demoY1, replaced)
\* C10 = C5-C9
annualSavings(demoY1, demoY2) == fsub(demoY1, demoY2)

\* reductionPct without the guard on a zero demoBudgetYear1.
reductionPctUnguarded(demoY1, demoY2) == fdiv(fsub(demoY1, demoY2), demoY1)

\* row 11
reductionPct(demoY1, demoY2) ==
    IF isZero(demoY1) THEN Zero ELSE fdiv(fsub(demoY1, demoY2), demoY1)

\* paybackMonthsBase without the guard on a zero replacedProduction.
paybackMonthsBaseUnguarded(investmentYear1, replaced) ==
    fmul(fdiv(investmentYear1, replaced), Num(12, 1))

\* row 12
paybackMonthsBase(investmentYear1, replaced) ==
    IF isZero(replaced) THEN Infinity
    ELSE fmul(fdiv(investmentYear1, replaced), Num(12, 1))

\* roi2yBase without the guard on a zero investmentYear1.
roi2yBaseUnguarded(savings, investmentYear1) ==
    fdiv(fsub(savings, investmentYear1), investmentYear1)

\* row 13
roi2yBase(savings, investmentYear1) ==
    IF isZero(investmentYear1) THEN Infinity
    ELSE fdiv(fsub(savings, investmentYear1), investmentYear1)

\* incrementalSales with the proxy metric added to the sales uplift.
incrementalSalesWithPerf(revenue, s) ==
    fmul(revenue, fadd(s.salesUplift, s.perfUplift))

\* row 17
incrementalSales(revenue, s) == fmul(revenue, s.salesUplift)
\* row 20
incrementalProfit(sales, grossMargin) == fmul(sales, grossMargin)

\* roi2yTotal without the guard on a zero investmentYear1.
roi2yTotalUnguarded(savings, profit, investmentYear1) ==
    fdiv(fsub(fadd(savings, profit), investmentYear1), investmentYear1)

\* roi2yTotal that leaves the scenario's incremental profit out.
roi2yTotalSavingsOnly(savings, profit, investmentYear1) ==
    IF isZero(investmentYear1) THEN Infinity
    ELSE fdiv(fsub(savings, investmentYear1), investmentYear1)

\* row 21
roi2yTotal(savings, profit, investmentYear1) ==
    IF isZero(investmentYear1) THEN Infinity
    ELSE fdiv(fsub(fadd(savings, profit), investmentYear1), investmentYear1)

\* paybackMonthsUpside without the guard on a zero gain.
paybackMonthsUpsideUnguarded(savings, profit, investmentYear1) ==
    fmul(fdiv(investmentYear1, fadd(savings, profit)), Num(12, 1))

\* paybackMonthsUpside whose guard tests the savings alone.
paybackMonthsUpsideSavingsGuard(savings, profit, investmentYear1) ==
    IF isZero(savings) THEN Infinity
    ELSE fmul(fdiv(investmentYear1, fadd(savings, profit)), Num(12, 1))

\* row 22
paybackMonthsUpside(savings, profit, investmentYear1) ==
    IF isZero(fadd(savings, profit)) THEN Infinity
    ELSE fmul(fdiv(investmentYear1, fadd(savings, profit)), Num(12, 1))

\* The callback of scenarios.map: { ...s, incrementalSales, ... }
scenarioResult(s, revenue, grossMargin, savings, investmentYear1) ==
    LET sales == incrementalSales(revenue, s)
        profit == incrementalProfit(sales, grossMargin)
    IN  [name |-> s.name,
         perfUplift |-> s.perfUplift,
         salesUplift |-> s.salesUplift,
         incrementalSales |-> sales,
         incrementalProfit |-> profit,
         roi2yTotal |-> roi2yTotal(savings, profit, investmentYear1),
         paybackMonthsUpside |-> paybackMonthsUpside(savings, profit, investmentYear1)]

\* scenarioResults built back to front.
scenarioResultsReversed(scenarios, revenue, grossMargin, savings, investmentYear1) ==
    [i \in 1..Len(scenarios) |->
        scenarioResult(scenarios[Len(scenarios) + 1 - i], revenue, grossMargin,
                       savings, investmentYear1)]

\* scenarioResults in which a scenario's sales uplift stacks on the uplift of
\* the scenario before it.
scenarioResultsStacked(scenarios, revenue, grossMargin, savings, investmentYear1) ==
    [i \in 1..Len(scenarios) |->
        scenarioResult(
            IF i = 1 THEN scenarios[i]
            ELSE [scenarios[i] EXCEPT
                    !.salesUplift = fadd(scenarios[i].salesUplift,
                                         scenarios[i - 1].salesUplift)],
            revenue, grossMargin, savings, investmentYear1)]

\* scenarios.map(...)
scenarioResults(scenarios, revenue, grossMargin, savings, investmentYear1) ==
    [i \in 1..Len(scenarios) |->
        scenarioResult(scenarios[i], revenue, grossMargin, savings, investmentYear1)]

\* The value of the memo for the inputs `in`.
\* The results object, from the six values of the budget chain.
CalcResults(in, mktBudget, cntBudget, demoY1, replaced, demoY2, savings) ==
    [marketingBudget |-> mktBudget,
     contentBudget |-> cntBudget,
     demoBudgetYear1 |-> demoY1,
     replacedProduction |-> replaced,
     demoBudgetYear2 |-> demoY2,
     annualSavings |-> savings,
     reductionPct |-> reductionPct(demoY1, demoY2),
     paybackMonthsBase |-> paybackMonthsBase(in.investmentYear1, replaced),
     roi2yBase |-> roi2yBase(savings, in.investmentYear1),
     scenarioResults |->
         scenarioResults(in.scenarios, in.revenue, in.grossMargin, savings,
                         in.investmentYear1)]

\* The statements of the callback in their order, each constant handed to
\* the statements after it.
CalcFromDemoY2(in, mktBudget, cntBudget, demoY1, replaced, demoY2) ==
    CalcResults(in, mktBudget, cntBudget, demoY1, replaced, demoY2,
                annualSavings(demoY1, demoY2))

CalcFromReplaced(in, mktBudget, cntBudget, demoY1, replaced) ==
    CalcFromDemoY2(in, mktBudget, cntBudget, demoY1, replaced,
                   demoBudgetYear2(demoY1, replaced))

CalcFromDemoY1(in, mktBudget, cntBudget, demoY1) ==
    CalcFromReplaced(in, mktBudget, cntBudget, demoY1,
                     replacedProduction(demoY1, in.replacementPct))

CalcFromContent(in, mktBudget, cntBudget) ==
    CalcFromDemoY1(in, mktBudget, cntBudget,
                   demoBudgetYear1(cntBudget, in.demoAllocPct))

CalcFromMarketing(in, mktBudget) ==
    CalcFromContent(in, mktBudget, contentBudget(mktBudget, in.contentPct))

Calc(in) ==
    CalcFromMarketing(in, marketingBudget(in.revenue, in.marketingPct))

\* ------------------------------------------------------------------------
\* calc of the other two pages
\* ------------------------------------------------------------------------

\* The memo of the Spanish page with the base payback left in years.
CalcEsYears(in) ==
    LET mktBudget == fmul(in.revenue, in.marketingPct)
        cntBudget == fmul(mktBudget, in.contentPct)
        demoY1 == fmul(cntBudget, in.demoAllocPct)
        replaced == fmul(demoY1, in.replacementPct)
        demoY2 == fsub(demoY1, replaced)
        savings == fsub(demoY1, demoY2)
        result(s) ==
            LET sales == fmul(in.revenue, s.salesUplift)
                profit == fmul(sales, in.grossMargin)
                gain == fadd(savings, profit)
            IN  [name |-> s.name,
                 perfUplift |-> s.perfUplift,
                 salesUplift |-> s.salesUplift,
                 incrementalSales |-> sales,
                 incrementalProfit |-> profit,
                 roi2yTotal |->
                     IF isZero(in.investmentYear1) THEN Infinity
                     ELSE fdiv(fsub(gain, in.investmentYear1), in.investmentYear1),
                 paybackMonthsUpside |->
                     IF isZero(gain) THEN Infinity
                     ELSE fmul(fdiv(in.investmentYear1, gain), Num(12, 1))]
    IN  [marketingBudget |-> mktBudget,
         contentBudget |-> cntBudget,
         demoBudgetYear1 |-> demoY1,
         replacedProduction |-> replaced,
         demoBudgetYear2 |-> demoY2,
         annualSavings |-> savings,
         reductionPct |->
             IF isZero(demoY1) THEN Zero ELSE fdiv(fsub(demoY1, demoY2), demoY1),
         paybackMonthsBase |->
             IF isZero(replaced) THEN Infinity
             ELSE fdiv(in.investmentYear1, replaced),
         roi2yBase |->
             IF isZero(in.investmentYear1) THEN Infinity
             ELSE fdiv(fsub(savings, in.investmentYear1), in.investmentYear1),
         scenarioResults |-> [i \in 1..Len(in.scenarios) |-> result(in.scenarios[i])]]

\* The value of the memo of the Spanish page (es/page.tsx) for the inputs `in`.
CalcEs(in) ==
    LET mktBudget == fmul(in.revenue, in.marketingPct)
        cntBudget == fmul(mktBudget, in.contentPct)
        demoY1 == fmul(cntBudget, in.demoAllocPct)
        replaced == fmul(demoY1, in.replacementPct)
        demoY2 == fsub(demoY1, replaced)
        savings == fsub(demoY1, demoY2)
        result(s) ==
            LET sales == fmul(in.revenue, s.salesUplift)
                profit == fmul(sales, in.grossMargin)
                gain == fadd(savings, profit)
            IN  [name |-> s.name,
                 perfUplift |-> s.perfUplift,
                 salesUplift |-> s.salesUplift,
                 incrementalSales |-> sales,
                 incrementalProfit |-> profit,
                 roi2yTotal |->
                     IF isZero(in.investmentYear1) THEN Infinity
                     ELSE fdiv(fsub(gain, in.investmentYear1), in.investmentYear1),
                 paybackMonthsUpside |->
                     IF isZero(gain) THEN Infinity
                     ELSE fmul(fdiv(in.investmentYear1, gain), Num(12, 1))]
    IN  [marketingBudget |-> mktBudget,
         contentBudget |-> cntBudget,
         demoBudgetYear1 |-> demoY1,
         replacedProduction |-> replaced,
         demoBudgetYear2 |-> demoY2,
         annualSavings |-> savings,
         reductionPct |->
             IF isZero(demoY1) THEN Zero ELSE fdiv(fsub(demoY1, demoY2), demoY1),
         paybackMonthsBase |->
             IF isZero(replaced) THEN Infinity
             ELSE fmul(fdiv(in.investmentYear1, replaced), Num(12, 1)),
         roi2yBase |->
             IF isZero(in.investmentYear1) THEN Infinity
             ELSE fdiv(fsub(savings, in.investmentYear1), in.investmentYear1),
         scenarioResults |-> [i \in 1..Len(in.scenarios) |-> result(in.scenarios[i])]]

\* The value of the memo of the English page (page.tsx) for the inputs `in`.
CalcEn(in) ==
    LET mktBudget == fmul(in.revenue, in.marketingPct)
        cntBudget == fmul(mktBudget, in.contentPct)
        demoY1 == fmul(cntBudget, in.demoAllocPct)
        replaced == fmul(demoY1, in.replacementPct)
        demoY2 == fsub(demoY1, replaced)
        savings == fsub(demoY1, demoY2)
        result(s) ==
            LET sales == fmul(in.revenue, s.salesUplift)
                profit == fmul(sales, in.grossMargin)
                gain == fadd(savings, profit)
            IN  [name |-> s.name,
                 perfUplift |-> s.perfUplift,
                 salesUplift |-> s.salesUplift,
                 incrementalSales |-> sales,
                 incrementalProfit |-> profit,
                 roi2yTotal |->
                     IF isZero(in.investmentYear1) THEN Infinity
                     ELSE fdiv(fsub(gain, in.investmentYear1), in.investmentYear1),
                 paybackMonthsUpside |->
                     IF isZero(gain) THEN Infinity
                     ELSE fmul(fdiv(in.investmentYear1, gain), Num(12, 1))]
    IN  [marketingBudget |-> mktBudget,
         contentBudget |-> cntBudget,
         demoBudgetYear1 |-> demoY1,
         replacedProduction |-> replaced,
         demoBudgetYear2 |-> demoY2,
         annualSavings |-> savings,
         reductionPct |->
             IF isZero(demoY1) THEN Zero ELSE fdiv(fsub(demoY1, demoY2), demoY1),
         paybackMonthsBase |->
             IF isZero(replaced) THEN Infinity
             ELSE fmul(fdiv(in.investmentYear1, replaced), Num(12, 1)),
         roi2yBase |->
             IF isZero(in.investmentYear1) THEN Infinity
             ELSE fdiv(fsub(savings, in.investmentYear1), in.investmentYear1),
         scenarioResults |-> [i \in 1..Len(in.scenarios) |-> result(in.scenarios[i])]]

\* ------------------------------------------------------------------------
\* The results renderer (the OUTPUTS section of the page)
\* ------------------------------------------------------------------------

\* The cells of the "Core results" table.
CoreResultsView(c) ==
    [marketingBudget |-> money(c.marketingBudget),
     contentBudget |-> money(c.contentBudget),
     demoBudgetYear1 |-> money(c.demoBudgetYear1),
     annualSavings |-> money(c.annualSavings),
     reductionPct |-> pct(c.reductionPct, 0),
     paybackMonthsBase |->
         IF isFinite(c.paybackMonthsBase) THEN num(c.paybackMonthsBase, 1) ELSE Dash,
     roi2yBase |->
         IF isFinite(c.roi2yBase) THEN pct(c.roi2yBase, 0) ELSE Dash]

\* One row of the "Upside scenarios" table (the mobile card shows the same
\* four values with the same expressions).
ScenarioRowView(s) ==
    [name |-> s.name,
     incrementalSales |-> money(s.incrementalSales),
     incrementalProfit |-> money(s.incrementalProfit),
     roi2yTotal |-> pct(s.roi2yTotal, 0),
     paybackMonthsUpside |->
         IF isFinite(s.paybackMonthsUpside) THEN num(s.paybackMonthsUpside, 1) ELSE Dash]

ResultsView(c) ==
    [core |-> CoreResultsView(c),
     rows |-> [i \in 1..Len(c.scenarioResults) |-> ScenarioRowView(c.scenarioResults[i])]]

\* ------------------------------------------------------------------------
\* The inputs
\* ------------------------------------------------------------------------

\* What a percentage field stores for the entered percentage p: p / 100.
PctOf(p) == fdiv(Num(p, 1), Num(100, 1))

\* Number.MAX_VALUE (a whole number).
MaxValue == Fin(MaxFiniteK)

\* Amounts are whole numbers (the amount fields store Math.round(n)).
Revenues == {Num(0, 1), Num(1, 1), Num(29, 1), MaxValue}
Investments == {Num(0, 1), Num(2, 1), MaxValue}
MarketingPcts == {PctOf(100), PctOf(150)}
ContentPcts == {PctOf(0), PctOf(100)}
DemoAllocPcts == {PctOf(50), PctOf(100)}
ReplacementPcts == {PctOf(0), PctOf(20), PctOf(60), PctOf(210)}
GrossMargins == {PctOf(0), PctOf(40)}
PerfUplifts == {PctOf(5), PctOf(10), PctOf(15)}
SalesUplifts == {PctOf(0), PctOf(25)}
\* name: "A" | "B" | "C"
Names == {"A", "B", "C"}

\* The perfUplift a scenario starts with; no formula reads it, so the
\* scenarios drawn keep it and the perfUplift property varies it.
perfUpliftDefault(name) ==
    CASE name = "A" -> PctOf(5)
      [] name = "B" -> PctOf(10)
      [] OTHER -> PctOf(15)

Scenario ==
    {[name |-> n, perfUplift |-> perfUpliftDefault(n), salesUplift |-> u] :
        n \in Names, u \in SalesUplifts}

\* The scenario lists: any number of scenarios with distinct names, in any
\* order.
ScenarioLists ==
    UNION {{l \in [1..n -> Scenario] :
              \A i, j \in 1..n : i # j => l[i].name # l[j].name}
           : n \in 0..Cardinality(Names)}

Inputs ==
    [revenue : Revenues,
     marketingPct : MarketingPcts,
     contentPct : ContentPcts,
     demoAllocPct : DemoAllocPcts,
     replacementPct : ReplacementPcts,
     investmentYear1 : Investments,
     grossMargin : GrossMargins,
     scenarios : ScenarioLists]

\* ------------------------------------------------------------------------
\* The page: its default configuration
\* ------------------------------------------------------------------------

\* The binary64 number of a whole-number literal n.
Int64(n) == Round64(IF n < 0 THEN -1 ELSE 1, BigOfNat(Abs(n)), 0, FALSE)

\* The binary64 number of a literal with the decimal value n/d (the
\* number nearest to it).
Num64(n, d) == IF d = 1 THEN Int64(n) ELSE fdiv(Int64(n), Int64(d))

\* The initial values of the eight useState hooks.
DefaultScenarios ==
    << [name |-> "A", perfUplift |-> Num64(5, 100), salesUplift |-> Num64(25, 10000)],
       [name |-> "B", perfUplift |-> Num64(1, 10), salesUplift |-> Num64(5, 1000)],
       [name |-> "C", perfUplift |-> Num64(15, 100), salesUplift |-> Num64(1, 100)] >>

DefaultInputs ==
    [revenue |-> Num64(14000000, 1),
     marketingPct |-> Num64(7, 100),
     contentPct |-> Num64(2, 10),
     demoAllocPct |-> Num64(5, 10),
     replacementPct |-> Num64(6, 10),
     investmentYear1 |-> Num64(50000, 1),
     grossMargin |-> Num64(4, 10),
     scenarios |-> DefaultScenarios]

\* ------------------------------------------------------------------------
\* The state machine: one calculation and one rendering of its results
\* ------------------------------------------------------------------------

VARIABLES
    inputs,    \* the eight inputs handed to the calculation
    calc,      \* the results (<<>> before the calculation ran)
    view,      \* the displayed results (<<>> before the renderer ran)
    pc,        \* "inputs", "calculated", "rendered"; "page" on the live page
    firstCalc, \* history: the first call of the callback (<<>> before it)
    focus,     \* the input field being edited, NoFocus when there is none
    draft,     \* the text in the field being edited
    edits      \* how many texts the user has typed

vars == <<inputs, calc, view, pc, firstCalc, focus, draft, edits>>

NoText == [kind |-> "none"]
NoFocus == [kind |-> "none"]

Init ==
    /\ inputs \in Inputs
    /\ calc = <<>>
    /\ view = <<>>
    /\ pc = "inputs"
    /\ firstCalc = <<>>
    /\ focus = NoFocus
    /\ draft = NoText
    /\ edits = 0

\* The useMemo callback runs on the inputs.
Calculate ==
    /\ pc = "inputs"
    /\ calc' = Calc(inputs)
    /\ pc' = "calculated"
    /\ UNCHANGED <<inputs, view, firstCalc, focus, draft, edits>>

\* The OUTPUTS section is built from calc.
Render ==
    /\ pc = "calculated"
    /\ view' = ResultsView(calc)
    /\ pc' = "rendered"
    /\ UNCHANGED <<inputs, calc, firstCalc, focus, draft, edits>>

Next == Calculate \/ Render

Spec == Init /\ [][Next]_vars

\* ------------------------------------------------------------------------
\* The state machine of the memoised calculation: the page's eight state
\* setters, each followed by the render that runs useMemo
\* ------------------------------------------------------------------------

\* The dependency array of useMemo.
Deps(in) ==
    <<in.revenue, in.marketingPct, in.contentPct, in.demoAllocPct,
      in.replacementPct, in.investmentYear1, in.grossMargin, in.scenarios>>

\* A memo that leaves grossMargin out of its dependency array.
DepsWithoutGrossMargin(in) ==
    <<in.revenue, in.marketingPct, in.contentPct, in.demoAllocPct,
      in.replacementPct, in.investmentYear1, in.scenarios>>

\* A memo whose dependency array lacks grossMargin.
useMemoWithoutGrossMargin(prevIn, prevCalc, in) ==
    IF DepsWithoutGrossMargin(in) = DepsWithoutGrossMargin(prevIn)
    THEN prevCalc ELSE Calc(in)

\* A memo whose dependency array lacks investmentYear1.
useMemoWithoutInvestment(prevIn, prevCalc, in) ==
    IF [Deps(in) EXCEPT ![6] = 0] = [Deps(prevIn) EXCEPT ![6] = 0]
    THEN prevCalc ELSE Calc(in)

\* useMemo on a render: the callback runs when a dependency differs from the
\* one of the previous render, and the previous result is kept otherwise.
useMemo(prevIn, prevCalc, in) ==
    IF Deps(in) = Deps(prevIn) THEN prevCalc ELSE Calc(in)

\* The values the setters are called with: the default and one other value
\* that the input handlers can produce.
RevenueValues == {Num64(14000000, 1), Num64(20000000, 1)}
MarketingPctValues == {Num64(7, 100), Num64(10, 100)}
ContentPctValues == {Num64(2, 10), Num64(25, 100)}
DemoAllocPctValues == {Num64(5, 10), Num64(40, 100)}
ReplacementPctValues == {Num64(6, 10), Num64(250, 100)}
InvestmentValues == {Num64(50000, 1), Num64(0, 1)}
GrossMarginValues == {Num64(4, 10), Num64(35, 100)}
ScenarioPatches == {[perfUplift |-> Num64(1, 10)]}
PatchedRows == {1, 2}

\* { ...s, ...patch }
Patched(s, patch) ==
    [f \in DOMAIN s |-> IF f \in DOMAIN patch THEN patch[f] ELSE s[f]]

\* setScenario with a map that patches every row
setScenarioEveryRow(prev, idx, patch) ==
    [i \in DOMAIN prev |-> Patched(prev[i], patch)]

\* setScenarios((prev) => prev.map((s, i) => (i === idx ? {...} : s)))
setScenario(prev, idx, patch) ==
    [i \in DOMAIN prev |-> IF i = idx THEN Patched(prev[i], patch) ELSE prev[i]]

MemoInit ==
    /\ inputs = DefaultInputs
    /\ calc = Calc(DefaultInputs)
    /\ firstCalc = [inputs |-> inputs, result |-> calc, between |-> FALSE]
    /\ view = <<>>
    /\ pc = "page"
    /\ focus = NoFocus
    /\ draft = NoText
    /\ edits = 0

\* The history of the first call after a render with the inputs next:
\* between tells that the callback has run on other inputs than the first
\* call's (a render with other inputs follows a change of a dependency).
Remembered(next) ==
    [firstCalc EXCEPT !.between = @ \/ next # firstCalc.inputs]

\* A state setter called with the next inputs, and the render it causes.
Rerender(next) ==
    /\ pc = "page"
    /\ inputs' = next
    /\ calc' = useMemo(inputs, calc, next)
    /\ firstCalc' = Remembered(next)
    /\ UNCHANGED <<view, pc, focus, draft, edits>>

SetRevenue ==
    \E v \in RevenueValues : Rerender([inputs EXCEPT !.revenue = v])

SetMarketingPct ==
    \E v \in MarketingPctValues : Rerender([inputs EXCEPT !.marketingPct = v])

SetContentPct ==
    \E v \in ContentPctValues : Rerender([inputs EXCEPT !.contentPct = v])

SetDemoAllocPct ==
    \E v \in DemoAllocPctValues : Rerender([inputs EXCEPT !.demoAllocPct = v])

SetReplacementPct ==
    \E v \in ReplacementPctValues :
        Rerender([inputs EXCEPT !.replacementPct = v])

SetInvestmentYear1 ==
    \E v \in InvestmentValues : Rerender([inputs EXCEPT !.investmentYear1 = v])

SetGrossMargin ==
    \E v \in GrossMarginValues : Rerender([inputs EXCEPT !.grossMargin = v])

\* prev.map builds a new array on every call, so the scenarios dependency
\* differs from the previous one and the callback runs even when the patch
\* changes no value.
SetScenario ==
    \E idx \in PatchedRows, patch \in ScenarioPatches :
        /\ pc = "page"
        /\ inputs' = [inputs EXCEPT
                         !.scenarios = setScenario(inputs.scenarios, idx, patch)]
        /\ calc' = Calc(inputs')
        /\ firstCalc' = Remembered(inputs')
        /\ UNCHANGED <<view, pc, focus, draft, edits>>

MemoNext ==
    \/ SetRevenue
    \/ SetMarketingPct
    \/ SetContentPct
    \/ SetDemoAllocPct
    \/ SetReplacementPct
    \/ SetInvestmentYear1
    \/ SetGrossMargin
    \/ SetScenario

MemoSpec == MemoInit /\ [][MemoNext]_vars

\* ------------------------------------------------------------------------
\* The input fields: texts, Math.round and Math.max
\* ------------------------------------------------------------------------
\* A text is known by what Number makes of it:
\*   [kind |-> "junk"]     no numeric literal ("abc")
\*   [kind |-> "number", v |-> x, commas |-> b, padded |-> b]
\*                         a numeric literal of the value x ("Infinity" and
\*                         "NaN" included), written with thousands separators
\*                         when commas, inside white space when padded.

\* String(x)
String(x) == [kind |-> "number", v |-> x, commas |-> FALSE, padded |-> FALSE]

\* text.replace(/,/g, "")
StripCommas(text) ==
    IF text.kind = "number" THEN [text EXCEPT !.commas = FALSE] ELSE text

\* text.trim()
Trim(text) ==
    IF text.kind = "number" THEN [text EXCEPT !.padded = FALSE] ELSE text

\* Number(text): white space around a literal is skipped, a separator inside
\* it is not a part of any literal.
ToNumber(text) ==
    IF text.kind = "number" /\ ~text.commas THEN text.v ELSE NaN

\* x < y, for numbers that are not NaN
fless(x, y) ==
    IF x.c = "inf" /\ y.c = "inf" THEN x.k < y.k ELSE fsub(x, y).k < 0

\* Math.max(x, y)
mathMax(x, y) ==
    IF isNaN(x) \/ isNaN(y) THEN NaN ELSE IF fless(x, y) THEN y ELSE x

\* The whole number nearest to sgn * (q + f): q the whole part, half
\* whether f >= 1/2, low whether f is neither 0 nor 1/2; a tie goes up.
RoundedWhole(sgn, q, half, low) ==
    Round64(sgn, IF half /\ (sgn > 0 \/ low) THEN BigAdd(q, <<1>>) ELSE q, 0,
            FALSE)

\* Math.round of a finite binary64 number with e < 0, its fraction being
\* the last frac bits of the significand.
RoundFraction(a, frac) ==
    RoundedWhole(a.k, BigShr(a.m, frac), BigBit(a.m, frac - 1) = 1,
                 BigShl(BigShr(a.m, frac - 1), frac - 1) # a.m)

RoundFinite(a) ==
    IF a.k = 0 \/ a.e >= 0 THEN a ELSE RoundFraction(a, -a.e)

\* Math.round(x)
mathRound(x) == IF isFinite(x) THEN RoundFinite(To64(x)) ELSE x

\* function clampNumber(v, fallback)
clampNumber(v, fallback) ==
    IF isFinite(ToNumber(StripCommas(v))) THEN ToNumber(StripCommas(v))
    ELSE fallback

\* The five fields built by StablePercentInput, and the two fields of each
\* scenario row built by StableNumberInput.
PercentFields ==
    {"marketingPct", "contentPct", "demoAllocPct", "replacementPct",
     "grossMargin"}
ScenarioFields == {"perfUplift", "salesUplift"}
StableFields ==
    [kind : {"percent"}, name : PercentFields]
        \cup [kind : {"scenario"}, idx : 1..3, name : ScenarioFields]

\* The value prop of a field: Math.round(value * 10000) / 100 of a percent
\* field, s.perfUplift * 100 or s.salesUplift * 100 of a scenario field.
ValueProp(in, f) ==
    IF f.kind = "percent"
    THEN fdiv(mathRound(fmul(in[f.name], Int64(10000))), Int64(100))
    ELSE fmul(in.scenarios[f.idx][f.name], Int64(100))

\* The fraction that onValue stores: Math.max(0, n) / 100.
StoredFraction(n) == fdiv(mathMax(Zero, n), Int64(100))

\* onValue(n) of a field: onChange(Math.max(0, n) / 100) of a percent
\* field, setScenario(idx, {...: Math.max(0, n) / 100}) of a scenario field.
onValue(in, f, n) ==
    IF f.kind = "percent" THEN [in EXCEPT ![f.name] = StoredFraction(n)]
    ELSE [in EXCEPT !.scenarios =
              setScenario(in.scenarios, f.idx, f.name :> StoredFraction(n))]

\* onFocus: the draft is String(Math.round(value * 1000000) / 1000000).
FocusDraft(value) ==
    String(fdiv(mathRound(fmul(value, Int64(1000000))), Int64(1000000)))

\* format: n.toLocaleString("en-US", { maximumFractionDigits: 2 }), the
\* number to two decimals with thousands separators; "∞" and "NaN" for the
\* values that are not finite.
Formatted(value) ==
    IF isFinite(value)
    THEN [kind |-> "number",
          v |-> fdiv(mathRound(fmul(value, Int64(100))), Int64(100)),
          commas |-> ~fless(value, Int64(1000)), padded |-> FALSE]
    ELSE [kind |-> "junk"]

\* The effect of a StableNumberInput, run after a render in which value,
\* isEditing or format changed: the draft it leaves.
useEffectUnguarded(isEditing, text, value) == Formatted(value)

useEffect(isEditing, text, value) ==
    IF ~isEditing THEN Formatted(value) ELSE text

\* onBlur: the number that goes to onValue, from the draft and the value
\* prop (min is 0 in every field).
BlurNextOf(n, value) == IF isFinite(n) THEN mathMax(Zero, n) ELSE value

BlurNext(text, value) == BlurNextOf(ToNumber(Trim(StripCommas(text))), value)

\* onChange of the two amount fields: Math.max(0, Math.round(n)) with
\* n = clampNumber(e.target.value.replace(/,/g, ""), the stored amount).
AmountOf(text, stored) ==
    mathMax(Zero, mathRound(clampNumber(StripCommas(text), stored)))

\* ------------------------------------------------------------------------
\* The state machine of the input fields: the user types into the amount
\* fields, and focuses, types into and leaves the other fields
\* ------------------------------------------------------------------------

\* The user types at most MaxEdits texts.
MaxEdits == 1

\* Texts the user types: no number ("abc"), "-5", " 1,250.125 " (thousands
\* separators and a fraction, inside white space) and 8.98846567431158e307
\* (2^1023).
TypedTexts ==
    { [kind |-> "junk"],
      [kind |-> "number", v |-> Int64(-5), commas |-> FALSE, padded |-> FALSE],
      [kind |-> "number", v |-> Num64(1250125, 1000), commas |-> TRUE,
       padded |-> TRUE],
      [kind |-> "number", v |-> Round64(1, <<1>>, 1023, FALSE),
       commas |-> FALSE, padded |-> FALSE] }

EditInit ==
    /\ inputs = DefaultInputs
    /\ calc = Calc(DefaultInputs)
    /\ firstCalc = [inputs |-> inputs, result |-> calc, between |-> FALSE]
    /\ view = <<>>
    /\ pc = "page"
    /\ focus = NoFocus
    /\ draft = NoText
    /\ edits = 0

\* A state setter called by a handler, and the render it causes.
Commit(next) ==
    /\ inputs' = next
    /\ calc' = useMemo(inputs, calc, next)
    /\ firstCalc' = Remembered(next)

\* onChange of the revenue field
RevenueChange ==
    \E text \in TypedTexts :
        /\ pc = "page"
        /\ focus = NoFocus
        /\ edits < MaxEdits
        /\ edits' = edits + 1
        /\ Commit([inputs EXCEPT !.revenue = AmountOf(text, inputs.revenue)])
        /\ UNCHANGED <<view, pc, focus, draft>>

\* onChange of the investment field
InvestmentChange ==
    \E text \in TypedTexts :
        /\ pc = "page"
        /\ focus = NoFocus
        /\ edits < MaxEdits
        /\ edits' = edits + 1
        /\ Commit([inputs EXCEPT
                     !.investmentYear1 = AmountOf(text, inputs.investmentYear1)])
        /\ UNCHANGED <<view, pc, focus, draft>>

\* onFocus of a StableNumberInput, and the effect after its render
Focus ==
    \E f \in StableFields :
        /\ pc = "page"
        /\ focus = NoFocus
        /\ focus' = f
        /\ draft' = useEffect(TRUE, FocusDraft(ValueProp(inputs, f)),
                              ValueProp(inputs, f))
        /\ UNCHANGED <<inputs, calc, view, pc, firstCalc, edits>>

\* onChange of the StableNumberInput that has the focus
Type ==
    \E text \in TypedTexts :
        /\ pc = "page"
        /\ focus # NoFocus
        /\ edits < MaxEdits
        /\ edits' = edits + 1
        /\ draft' = text
        /\ UNCHANGED <<inputs, calc, view, pc, firstCalc, focus>>

\* onBlur of the StableNumberInput that has the focus.  The render after
\* the commit mounts the field afresh, its draft being the formatted value.
Blur ==
    /\ pc = "page"
    /\ focus # NoFocus
    /\ Commit(onValue(inputs, focus,
                      BlurNext(draft, ValueProp(inputs, focus))))
    /\ focus' = NoFocus
    /\ draft' = NoText
    /\ UNCHANGED <<view, pc, edits>>

EditNext == RevenueChange \/ InvestmentChange \/ Focus \/ Type \/ Blur

EditSpec == EditInit /\ [][EditNext]_vars

\* ------------------------------------------------------------------------
\* The English page of src/app/page.tsx.  The identifiers declared in the
\* body of Page before its JSX: the state variables, their setters, calc and
\* setScenario.
EnDeclared ==
    {"revenue", "setRevenue", "marketingPct", "setMarketingPct",
     "contentPct", "setContentPct", "demoAllocPct", "setDemoAllocPct",
     "replacementPct", "setReplacementPct", "investmentYear1",
     "setInvestmentYear1", "grossMargin", "setGrossMargin", "scenarios",
     "setScenarios", "calc", "setScenario"}

\* The input fields of the page: the input that the calculation reads, the
\* identifier the field's value is read from and the identifier its
\* onChange handler calls.
EnFields ==
    { [input |-> "revenue", reads |-> "revenue", calls |-> "setRevenue"],
      [input |-> "investmentYear1", reads |-> "investment",
       calls |-> "setInvestment"],
      [input |-> "marketingPct", reads |-> "marketingPct",
       calls |-> "setMarketingPct"],
      [input |-> "contentPct", reads |-> "contentPct",
       calls |-> "setContentPct"],
      [input |-> "demoAllocPct", reads |-> "demoAllocPct",
       calls |-> "setDemoAllocPct"],
      [input |-> "replacementPct", reads |-> "replacementPct",
       calls |-> "setReplacementPct"],
      [input |-> "grossMargin", reads |-> "grossMargin",
       calls |-> "setGrossMargin"],
      [input |-> "scenarios", reads |-> "scenarios",
       calls |-> "setScenario"] }

\* The page is served from src/app/page.tsx (its hooks have run and its JSX
\* is about to be evaluated) or from the later version of the page, whose
\* fields are those of EditSpec.
EnInit ==
    /\ inputs = DefaultInputs
    /\ calc = Calc(DefaultInputs)
    /\ firstCalc = [inputs |-> inputs, result |-> calc, between |-> FALSE]
    /\ view = <<>>
    /\ pc \in {"render", "page"}
    /\ focus = NoFocus
    /\ draft = NoText
    /\ edits = 0

\* The JSX of src/app/page.tsx is evaluated: each field reads its value.  A
\* read of an identifier that is not declared throws a ReferenceError (where
\* the type check does not reject the page beforehand), and no page is
\* shown.  The handlers of this version are not modelled: they never run.
EnRender ==
    /\ pc = "render"
    /\ pc' = IF \A f \in EnFields : f.reads \in EnDeclared
             THEN "en" ELSE "error"
    /\ UNCHANGED <<inputs, calc, view, firstCalc, focus, draft, edits>>

EnNext == EnRender \/ EditNext

EnSpec == EnInit /\ [][EnNext]_vars

\* ------------------------------------------------------------------------
\* Properties
\* ------------------------------------------------------------------------

Calculated == pc # "inputs"
Rendered == pc = "rendered"
Twelve == Num(12, 1)

\* C1: annualSavings (computed as demoBudgetYear1 - demoBudgetYear2) equals
\* replacedProduction (computed as demoBudgetYear1 * replacementPct) exactly.
C1_AnnualSavingsIsReplacedProduction ==
    Calculated => calc.annualSavings = calc.replacedProduction

\* C2: demoBudgetYear2 is demoBudgetYear1 minus replacedProduction.
C2_DemoBudgetYear2 ==
    Calculated =>
        calc.demoBudgetYear2 = fsub(calc.demoBudgetYear1, calc.replacedProduction)

\* A calculation with a budget left in year 2 after a non-zero replacement.
C2_Witness ==
    /\ Calculated
    /\ ~isZero(calc.replacedProduction)
    /\ ~isZero(calc.demoBudgetYear2)
    /\ isFinite(calc.demoBudgetYear2)
    /\ calc.demoBudgetYear2 # calc.demoBudgetYear1

\* C3: reductionPct is 0 whenever demoBudgetYear1 is 0, whatever the other
\* inputs are; it is never the NaN of 0/0.
C3_ReductionPctZero ==
    Calculated /\ isZero(calc.demoBudgetYear1) => calc.reductionPct = Zero

\* A calculation with demoBudgetYear1 = 0 although the revenue, the
\* replacement percentage and the investment are not 0.
C3_Witness ==
    /\ Calculated
    /\ isZero(calc.demoBudgetYear1)
    /\ ~isZero(inputs.revenue)
    /\ ~isZero(inputs.replacementPct)
    /\ ~isZero(inputs.investmentYear1)

\* C4 as stated: paybackMonthsBase is the infinity sentinel if and only if
\* replacedProduction is 0, and otherwise equals
\* (investmentYear1 / replacedProduction) * 12 and is finite.
C4_PaybackBaseInfinityIff ==
    Calculated =>
        /\ calc.paybackMonthsBase = Infinity <=> isZero(calc.replacedProduction)
        /\ ~isZero(calc.replacedProduction) =>
              /\ calc.paybackMonthsBase =
                    fmul(fdiv(inputs.investmentYear1, calc.replacedProduction), Twelve)
              /\ isFinite(calc.paybackMonthsBase)

\* C4 amended: paybackMonthsBase is the infinity sentinel if replacedProduction
\* is 0; otherwise it equals (investmentYear1 / replacedProduction) * 12, which
\* is finite whenever replacedProduction is finite and the exact quotient
\* 12 * investmentYear1 / replacedProduction is below the largest power of two
\* (beyond it the product overflows to the sentinel).
C4_PaybackBase ==
    Calculated =>
        /\ isZero(calc.replacedProduction) => calc.paybackMonthsBase = Infinity
        /\ ~isZero(calc.replacedProduction) =>
              calc.paybackMonthsBase =
                  fmul(fdiv(inputs.investmentYear1, calc.replacedProduction), Twelve)
        /\ ( /\ isFinite(calc.replacedProduction)
             /\ ~isZero(calc.replacedProduction)
             /\ 12 * inputs.investmentYear1.k * One
                    < Pow2(Precision + MaxShift - 1) * calc.replacedProduction.k )
           => isFinite(calc.paybackMonthsBase)

\* A calculation with nothing replaced and a non-zero investment, and so the
\* sentinel.
C4_Witness ==
    /\ Calculated
    /\ isZero(calc.replacedProduction)
    /\ ~isZero(calc.demoBudgetYear1)
    /\ ~isZero(inputs.investmentYear1)
    /\ calc.paybackMonthsBase = Infinity

\* C5 as stated: roi2yBase is the infinity sentinel if and only if
\* investmentYear1 is 0, and otherwise equals
\* (annualSavings - investmentYear1) / investmentYear1 and is finite.
C5_RoiBaseInfinityIffFinite ==
    Calculated =>
        /\ calc.roi2yBase = Infinity <=> isZero(inputs.investmentYear1)
        /\ ~isZero(inputs.investmentYear1) =>
              /\ calc.roi2yBase =
                    fdiv(fsub(calc.annualSavings, inputs.investmentYear1),
                         inputs.investmentYear1)
              /\ isFinite(calc.roi2yBase)

\* C5 amended: roi2yBase is the infinity sentinel if investmentYear1 is 0;
\* otherwise it equals (annualSavings - investmentYear1) / investmentYear1,
\* which is finite whenever annualSavings is finite (so, with finite
\* annualSavings, it is the sentinel if and only if investmentYear1 is 0).
C5_RoiBase ==
    Calculated =>
        /\ isZero(inputs.investmentYear1) => calc.roi2yBase = Infinity
        /\ ~isZero(inputs.investmentYear1) =>
              /\ calc.roi2yBase =
                    fdiv(fsub(calc.annualSavings, inputs.investmentYear1),
                         inputs.investmentYear1)
              /\ isFinite(calc.annualSavings) => isFinite(calc.roi2yBase)

\* A calculation with investmentYear1 = 0 and no savings, where the unguarded
\* quotient would be 0/0.
C5_Witness ==
    /\ Calculated
    /\ isZero(inputs.investmentYear1)
    /\ isZero(calc.annualSavings)
    /\ calc.roi2yBase = Infinity

\* C6: for every scenario roi2yTotal is the infinity sentinel when
\* investmentYear1 is 0 and otherwise equals
\* (annualSavings + incrementalProfit - investmentYear1) / investmentYear1; so
\* with investmentYear1 = 0, roi2yBase and every roi2yTotal are the sentinel.
C6_RoiTotal ==
    Calculated =>
        /\ \A i \in 1..Len(calc.scenarioResults) :
              LET r == calc.scenarioResults[i]
              IN  r.roi2yTotal =
                    IF isZero(inputs.investmentYear1) THEN Infinity
                    ELSE fdiv(fsub(fadd(calc.annualSavings, r.incrementalProfit),
                                   inputs.investmentYear1),
                              inputs.investmentYear1)
        /\ isZero(inputs.investmentYear1) =>
              /\ calc.roi2yBase = Infinity
              /\ \A i \in 1..Len(calc.scenarioResults) :
                    calc.scenarioResults[i].roi2yTotal = Infinity

\* A calculation with a positive investment for a scenario whose incremental
\* profit is not 0, so that its roi2yTotal differs from roi2yBase.
C6_Witness ==
    /\ Calculated
    /\ ~isZero(inputs.investmentYear1)
    /\ \E i \in 1..Len(calc.scenarioResults) :
          /\ ~isZero(calc.scenarioResults[i].incrementalProfit)
          /\ isFinite(calc.scenarioResults[i].roi2yTotal)
          /\ calc.scenarioResults[i].roi2yTotal # calc.roi2yBase

\* C7: for every scenario paybackMonthsUpside is the infinity sentinel when
\* annualSavings + incrementalProfit is 0 and otherwise equals
\* (investmentYear1 / (annualSavings + incrementalProfit)) * 12.
C7_PaybackUpside ==
    Calculated =>
        \A i \in 1..Len(calc.scenarioResults) :
            LET r == calc.scenarioResults[i]
                gain == fadd(calc.annualSavings, r.incrementalProfit)
            IN  r.paybackMonthsUpside =
                    IF isZero(gain) THEN Infinity
                    ELSE fmul(fdiv(inputs.investmentYear1, gain), Twelve)

\* A calculation without savings for two scenarios: one without incremental
\* profit (the sentinel) and one with it (a finite payback).
C7_Witness ==
    /\ Calculated
    /\ isZero(calc.annualSavings)
    /\ \E i, j \in 1..Len(calc.scenarioResults) :
          /\ isZero(calc.scenarioResults[i].incrementalProfit)
          /\ calc.scenarioResults[i].paybackMonthsUpside = Infinity
          /\ ~isZero(calc.scenarioResults[j].incrementalProfit)
          /\ isFinite(calc.scenarioResults[j].paybackMonthsUpside)

\* C8: whenever a ratio result (paybackMonthsBase, roi2yBase, a scenario's
\* roi2yTotal, a scenario's paybackMonthsUpside) is the infinity sentinel, the
\* renderer displays a dash for it, never a number.
C8_SentinelShownAsDash ==
    Rendered =>
        /\ calc.paybackMonthsBase = Infinity => view.core.paybackMonthsBase = Dash
        /\ calc.roi2yBase = Infinity => view.core.roi2yBase = Dash
        /\ \A i \in 1..Len(calc.scenarioResults) :
              /\ calc.scenarioResults[i].roi2yTotal = Infinity
                    => view.rows[i].roi2yTotal = Dash
              /\ calc.scenarioResults[i].paybackMonthsUpside = Infinity
                    => view.rows[i].paybackMonthsUpside = Dash

\* C9: the scenario results have the length of the input scenario list and
\* the k-th result carries the name of the k-th input scenario.
C9_OrderAndCount ==
    Calculated =>
        /\ Len(calc.scenarioResults) = Len(inputs.scenarios)
        /\ \A k \in 1..Len(inputs.scenarios) :
              calc.scenarioResults[k].name = inputs.scenarios[k].name

\* A calculation for two scenarios that are not in alphabetical order.
C9_Witness ==
    /\ Calculated
    /\ Len(inputs.scenarios) = 2
    /\ inputs.scenarios[1].name = "C"
    /\ inputs.scenarios[2].name = "A"
    /\ calc.scenarioResults[1].name = "C"

\* The inputs that differ from `in` only in the perfUplift of one scenario.
PerfUpliftVariants(in) ==
    {[in EXCEPT !.scenarios[i].perfUplift = p] :
        i \in 1..Len(in.scenarios), p \in PerfUplifts}
    \ {in}

\* The base metrics of two results agree.
SameBaseMetrics(c, d) ==
    /\ c.marketingBudget = d.marketingBudget
    /\ c.contentBudget = d.contentBudget
    /\ c.demoBudgetYear1 = d.demoBudgetYear1
    /\ c.replacedProduction = d.replacedProduction
    /\ c.demoBudgetYear2 = d.demoBudgetYear2
    /\ c.annualSavings = d.annualSavings
    /\ c.reductionPct = d.reductionPct
    /\ c.paybackMonthsBase = d.paybackMonthsBase
    /\ c.roi2yBase = d.roi2yBase

\* The financial results of every scenario of two results agree.
SameScenarioFinancials(c, d) ==
    /\ Len(c.scenarioResults) = Len(d.scenarioResults)
    /\ \A i \in 1..Len(c.scenarioResults) :
          /\ c.scenarioResults[i].incrementalSales = d.scenarioResults[i].incrementalSales
          /\ c.scenarioResults[i].incrementalProfit = d.scenarioResults[i].incrementalProfit
          /\ c.scenarioResults[i].roi2yTotal = d.scenarioResults[i].roi2yTotal
          /\ c.scenarioResults[i].paybackMonthsUpside = d.scenarioResults[i].paybackMonthsUpside

\* C10: each scenario result carries its scenario's perfUplift unchanged, and
\* a calculation that differs only in the perfUplift of a scenario produces
\* the same incrementalSales, incrementalProfit, roi2yTotal and
\* paybackMonthsUpside for every scenario and the same base metrics.
C10_PerfUpliftHasNoEffect ==
    pc = "calculated" =>
        /\ \A i \in 1..Len(inputs.scenarios) :
              calc.scenarioResults[i].perfUplift = inputs.scenarios[i].perfUplift
        /\ \A other \in PerfUpliftVariants(inputs) :
              LET otherCalc == Calc(other)
              IN  /\ SameBaseMetrics(calc, otherCalc)
                  /\ SameScenarioFinancials(calc, otherCalc)

\* A calculation with non-zero incremental sales for a scenario whose
\* perfUplift has another value in a variant of the inputs.
C10_Witness ==
    /\ Calculated
    /\ \E i \in 1..Len(inputs.scenarios) :
          /\ ~isZero(calc.scenarioResults[i].incrementalSales)
          /\ isFinite(calc.scenarioResults[i].incrementalSales)
          /\ \E other \in PerfUpliftVariants(inputs) :
                other.scenarios[i].perfUplift # inputs.scenarios[i].perfUplift

\* The edits of one scenario: the position i of the scenario and the inputs
\* that differ from `in` only in scenario i, which has another salesUplift
\* and any perfUplift.
ScenarioEdits(in) ==
    {e \in {[i |-> i,
             in |-> [in EXCEPT !.scenarios[i].perfUplift = p,
                               !.scenarios[i].salesUplift = u]] :
               i \in 1..Len(in.scenarios), p \in PerfUplifts, u \in SalesUplifts} :
        e.in.scenarios[e.i].salesUplift # in.scenarios[e.i].salesUplift}

\* C11: a calculation whose inputs differ only in the fields of scenario i
\* produces the same result for every scenario other than i and the same
\* base metrics (marketingBudget through roi2yBase).
C11_ScenarioIndependence ==
    pc = "calculated" =>
        \A edit \in ScenarioEdits(inputs) :
            LET otherCalc == Calc(edit.in)
            IN  /\ SameBaseMetrics(calc, otherCalc)
                /\ Len(otherCalc.scenarioResults) = Len(calc.scenarioResults)
                /\ \A j \in 1..Len(calc.scenarioResults) :
                      j # edit.i =>
                          otherCalc.scenarioResults[j] = calc.scenarioResults[j]

\* A calculation for several scenarios where an edit of the first scenario's
\* salesUplift changes that scenario's result, and the scenario after it has
\* non-zero incremental sales of its own.
C11_Witness ==
    /\ Calculated
    /\ Len(inputs.scenarios) >= 2
    /\ ~isZero(calc.scenarioResults[2].incrementalSales)
    /\ isFinite(calc.scenarioResults[2].roi2yTotal)
    /\ \E edit \in ScenarioEdits(inputs) :
          /\ edit.i = 1
          /\ edit.in.scenarios[1].salesUplift # inputs.scenarios[1].salesUplift
          /\ Calc(edit.in).scenarioResults[1] # calc.scenarioResults[1]

\* C14: the budget waterfall and the scenario fan-out follow the formula
\* chain: marketingBudget = revenue * marketingPct, contentBudget =
\* marketingBudget * contentPct, demoBudgetYear1 = contentBudget *
\* demoAllocPct, replacedProduction = demoBudgetYear1 * replacementPct, and
\* for every scenario incrementalSales = revenue * salesUplift and
\* incrementalProfit = incrementalSales * grossMargin.
C14_FormulaChain ==
    Calculated =>
        /\ calc.marketingBudget = fmul(inputs.revenue, inputs.marketingPct)
        /\ calc.contentBudget = fmul(calc.marketingBudget, inputs.contentPct)
        /\ calc.demoBudgetYear1 = fmul(calc.contentBudget, inputs.demoAllocPct)
        /\ calc.replacedProduction = fmul(calc.demoBudgetYear1, inputs.replacementPct)
        /\ \A i \in 1..Len(inputs.scenarios) :
              /\ calc.scenarioResults[i].incrementalSales =
                    fmul(inputs.revenue, inputs.scenarios[i].salesUplift)
              /\ calc.scenarioResults[i].incrementalProfit =
                    fmul(calc.scenarioResults[i].incrementalSales, inputs.grossMargin)

\* A calculation where every step of the waterfall changes the amount and a
\* scenario has an incremental profit below its incremental sales.
C14_Witness ==
    /\ Calculated
    /\ isFinite(calc.marketingBudget)
    /\ calc.marketingBudget # inputs.revenue
    /\ ~isZero(calc.contentBudget)
    /\ calc.demoBudgetYear1 # calc.contentBudget
    /\ ~isZero(calc.replacedProduction)
    /\ calc.replacedProduction # calc.demoBudgetYear1
    /\ \E i \in 1..Len(calc.scenarioResults) :
          /\ ~isZero(calc.scenarioResults[i].incrementalProfit)
          /\ calc.scenarioResults[i].incrementalProfit
                # calc.scenarioResults[i].incrementalSales

\* x is a number: a finite value of the format, an infinity or NaN.
IsNumber(x) ==
    \/ x = NaN
    \/ x = Infinity
    \/ x = NegInfinity
    \/ /\ DOMAIN x = {"c", "k"}
       /\ x.c = "fin"
       /\ x.k \in -MaxFiniteK..MaxFiniteK

\* r is a complete scenario result for the scenario s.
IsScenarioResult(r, s) ==
    /\ DOMAIN r = {"name", "perfUplift", "salesUplift", "incrementalSales",
                   "incrementalProfit", "roi2yTotal", "paybackMonthsUpside"}
    /\ r.name = s.name
    /\ IsNumber(r.incrementalSales)
    /\ IsNumber(r.incrementalProfit)
    /\ IsNumber(r.roi2yTotal)
    /\ IsNumber(r.paybackMonthsUpside)

\* The values a guarded division by zero resolves to.
Sentinels == {Zero, Infinity}

\* C15: the calculation is total.  For every combination of finite inputs
\* and every scenario list (the empty list and zero-valued inputs included)
\* the calculation returns a complete result: the nine base
\* metrics are numbers, and there is one complete scenario result per
\* scenario.  Every division by zero resolves to a defined sentinel value
\* (0 or Infinity), never to the NaN of 0/0 or to -Infinity.
C15_Total ==
    Calculated =>
        /\ DOMAIN calc = {"marketingBudget", "contentBudget", "demoBudgetYear1",
                          "replacedProduction", "demoBudgetYear2", "annualSavings",
                          "reductionPct", "paybackMonthsBase", "roi2yBase",
                          "scenarioResults"}
        /\ IsNumber(calc.marketingBudget)
        /\ IsNumber(calc.contentBudget)
        /\ IsNumber(calc.demoBudgetYear1)
        /\ IsNumber(calc.replacedProduction)
        /\ IsNumber(calc.demoBudgetYear2)
        /\ IsNumber(calc.annualSavings)
        /\ IsNumber(calc.reductionPct)
        /\ IsNumber(calc.paybackMonthsBase)
        /\ IsNumber(calc.roi2yBase)
        /\ DOMAIN calc.scenarioResults = 1..Len(inputs.scenarios)
        /\ \A i \in 1..Len(inputs.scenarios) :
              IsScenarioResult(calc.scenarioResults[i], inputs.scenarios[i])
        /\ isZero(calc.demoBudgetYear1) => calc.reductionPct \in Sentinels
        /\ isZero(calc.replacedProduction) => calc.paybackMonthsBase \in Sentinels
        /\ isZero(inputs.investmentYear1) =>
              /\ calc.roi2yBase \in Sentinels
              /\ \A i \in 1..Len(calc.scenarioResults) :
                    calc.scenarioResults[i].roi2yTotal \in Sentinels
        /\ \A i \in 1..Len(calc.scenarioResults) :
              isZero(fadd(calc.annualSavings, calc.scenarioResults[i].incrementalProfit))
                  => calc.scenarioResults[i].paybackMonthsUpside \in Sentinels

\* A calculation for the empty scenario list with a zero revenue and a zero
\* investment: every division of the base metrics is a division of 0 by 0.
C15_Witness ==
    /\ Calculated
    /\ inputs.scenarios = <<>>
    /\ calc.scenarioResults = <<>>
    /\ isZero(inputs.revenue)
    /\ isZero(inputs.investmentYear1)
    /\ calc.reductionPct = Zero
    /\ calc.paybackMonthsBase = Infinity
    /\ calc.roi2yBase = Infinity

\* C16 as stated: every ratio of the calculation (reductionPct,
\* paybackMonthsBase, roi2yBase, roi2yTotal, paybackMonthsUpside) is the
\* positive-infinity sentinel whenever its denominator is exactly 0.
C16_EveryRatioInfinity ==
    Calculated =>
        /\ isZero(calc.demoBudgetYear1) => calc.reductionPct = Infinity
        /\ isZero(calc.replacedProduction) => calc.paybackMonthsBase = Infinity
        /\ isZero(inputs.investmentYear1) =>
              /\ calc.roi2yBase = Infinity
              /\ \A i \in 1..Len(calc.scenarioResults) :
                    calc.scenarioResults[i].roi2yTotal = Infinity
        /\ \A i \in 1..Len(calc.scenarioResults) :
              isZero(fadd(calc.annualSavings, calc.scenarioResults[i].incrementalProfit))
                  => calc.scenarioResults[i].paybackMonthsUpside = Infinity

\* C16 amended: paybackMonthsBase, roi2yBase, roi2yTotal and
\* paybackMonthsUpside are the positive-infinity sentinel whenever their
\* denominator (replacedProduction, investmentYear1, investmentYear1,
\* annualSavings + incrementalProfit) is exactly 0; reductionPct is 0, not
\* the sentinel, whenever its denominator demoBudgetYear1 is exactly 0.
C16_RatioSentinels ==
    Calculated =>
        /\ isZero(calc.demoBudgetYear1) => calc.reductionPct = Zero
        /\ isZero(calc.replacedProduction) => calc.paybackMonthsBase = Infinity
        /\ isZero(inputs.investmentYear1) =>
              /\ calc.roi2yBase = Infinity
              /\ \A i \in 1..Len(calc.scenarioResults) :
                    calc.scenarioResults[i].roi2yTotal = Infinity
        /\ \A i \in 1..Len(calc.scenarioResults) :
              isZero(fadd(calc.annualSavings, calc.scenarioResults[i].incrementalProfit))
                  => calc.scenarioResults[i].paybackMonthsUpside = Infinity

\* A calculation where the denominator of each of the five ratios is 0.
C16_Witness ==
    /\ Calculated
    /\ isZero(calc.demoBudgetYear1)
    /\ isZero(calc.replacedProduction)
    /\ isZero(inputs.investmentYear1)
    /\ \E i \in 1..Len(calc.scenarioResults) :
          /\ isZero(fadd(calc.annualSavings, calc.scenarioResults[i].incrementalProfit))
          /\ calc.scenarioResults[i].paybackMonthsUpside = Infinity
          /\ calc.scenarioResults[i].roi2yTotal = Infinity

\* x <= y, x < y and x > y as the language compares numbers (false for NaN).
Ord(x) == IF x.c = "inf" THEN x.k * (MaxFiniteK + 1) ELSE x.k
LessEq(x, y) == ~isNaN(x) /\ ~isNaN(y) /\ Ord(x) <= Ord(y)
Less(x, y) == ~isNaN(x) /\ ~isNaN(y) /\ Ord(x) < Ord(y)
Greater(x, y) == Less(y, x)

\* C17 as stated: marketingBudget <= revenue implies marketingPct <= 1, and a
\* marketingPct above 1 yields marketingBudget = revenue * marketingPct,
\* unclamped.
C17_BudgetWithinRevenueOnlyIfPctAtMostOne ==
    Calculated =>
        /\ LessEq(calc.marketingBudget, inputs.revenue)
              => LessEq(inputs.marketingPct, Num(1, 1))
        /\ Greater(inputs.marketingPct, Num(1, 1))
              => calc.marketingBudget = fmul(inputs.revenue, inputs.marketingPct)

\* C17 amended: for a revenue of 1 or more, marketingBudget <= revenue
\* implies marketingPct <= 1 (with a revenue of 0 the budget is 0 whatever
\* the percentage is); and a marketingPct above 1 yields marketingBudget =
\* revenue * marketingPct, unclamped, which is above a revenue of 1 or more.
C17_NoClamp ==
    Calculated =>
        /\ ( /\ LessEq(Num(1, 1), inputs.revenue)
             /\ LessEq(calc.marketingBudget, inputs.revenue) )
              => LessEq(inputs.marketingPct, Num(1, 1))
        /\ Greater(inputs.marketingPct, Num(1, 1)) =>
              /\ calc.marketingBudget = fmul(inputs.revenue, inputs.marketingPct)
              /\ LessEq(Num(1, 1), inputs.revenue)
                    => Greater(calc.marketingBudget, inputs.revenue)

\* A calculation with a marketingPct above 1 and a finite marketing budget
\* above the revenue.
C17_Witness ==
    /\ Calculated
    /\ Greater(inputs.marketingPct, Num(1, 1))
    /\ isFinite(calc.marketingBudget)
    /\ Greater(calc.marketingBudget, inputs.revenue)

\* C18: with replacementPct > 1 and demoBudgetYear1 > 0 the calculation
\* returns a negative demoBudgetYear2 (not clamped to 0) while annualSavings
\* still equals replacedProduction.
C18_NegativeDemoBudgetYear2 ==
    ( /\ Calculated
      /\ Greater(inputs.replacementPct, Num(1, 1))
      /\ Greater(calc.demoBudgetYear1, Zero) )
    => /\ Less(calc.demoBudgetYear2, Zero)
       /\ calc.annualSavings = calc.replacedProduction

\* C19: the English and the Spanish pages compute identical results for
\* identical inputs: every base metric and every per-scenario metric of the
\* calculations of the three pages are equal.
C19_SameResultsInBothLocales ==
    pc = "calculated" =>
        LET es == CalcEs(inputs)
            en == CalcEn(inputs)
        IN  /\ es = calc
            /\ en = calc
            /\ SameBaseMetrics(es, en)
            /\ SameScenarioFinancials(es, en)

\* A calculation with finite non-zero base metrics and a scenario with
\* finite non-zero results, which the Spanish page computes too.
C19_Witness ==
    /\ Calculated
    /\ ~isZero(calc.replacedProduction)
    /\ isFinite(calc.paybackMonthsBase)
    /\ ~isZero(calc.paybackMonthsBase)
    /\ isFinite(calc.roi2yBase)
    /\ \E i \in 1..Len(calc.scenarioResults) :
          /\ ~isZero(calc.scenarioResults[i].incrementalProfit)
          /\ isFinite(calc.scenarioResults[i].roi2yTotal)
          /\ CalcEs(inputs).scenarioResults[i] = calc.scenarioResults[i]

\* ------------------------------------------------------------------------
\* Properties of the memoised calculation on the page (MemoSpec)
\* ------------------------------------------------------------------------

OnPage == pc = "page"

\* The binary64 number n units in the last place above the positive x.
Above64(x, n) == Round64(1, BigAdd(x.m, BigOfNat(n)), x.e, FALSE)

\* C12: the calculation is deterministic and stateless: a call with the
\* inputs of the first call (the default configuration) returns the result
\* of the first call, whatever calls with other inputs happened in between.
C12_SameInputsSameResults ==
    (OnPage /\ inputs = firstCalc.inputs) => calc = firstCalc.result

\* The page is back at the inputs of the first call after the callback ran
\* on other inputs.
C12_Witness ==
    /\ OnPage
    /\ firstCalc.between
    /\ inputs = firstCalc.inputs
    /\ calc = firstCalc.result
    /\ calc.scenarioResults[1].incrementalProfit = Num64(14000, 1)

\* C13 (as stated): for the default configuration the calculation yields
\* marketingBudget 980,000, contentBudget 196,000, demoBudgetYear1 98,000,
\* replacedProduction 58,800, demoBudgetYear2 39,200, annualSavings 58,800,
\* reductionPct 0.60, roi2yBase 0.176, and for scenario A incrementalSales
\* 35,000, incrementalProfit 14,000, roi2yTotal 0.456.
C13_DefaultConfigurationExact ==
    (OnPage /\ inputs = DefaultInputs) =>
        /\ calc.marketingBudget = Num64(980000, 1)
        /\ calc.contentBudget = Num64(196000, 1)
        /\ calc.demoBudgetYear1 = Num64(98000, 1)
        /\ calc.replacedProduction = Num64(58800, 1)
        /\ calc.demoBudgetYear2 = Num64(39200, 1)
        /\ calc.annualSavings = Num64(58800, 1)
        /\ calc.reductionPct = Num64(6, 10)
        /\ calc.roi2yBase = Num64(176, 1000)
        /\ calc.scenarioResults[1].incrementalSales = Num64(35000, 1)
        /\ calc.scenarioResults[1].incrementalProfit = Num64(14000, 1)
        /\ calc.scenarioResults[1].roi2yTotal = Num64(456, 1000)

\* C13 (amended): for the default configuration reductionPct is 0.6 and
\* scenario A has incrementalSales 35,000, incrementalProfit 14,000 and
\* roi2yTotal 0.456 exactly; the six budget values are each the binary64
\* number next above the stated value, and roi2yBase is six units in the
\* last place above 0.176 (0.17600000000000016).
C13_DefaultConfiguration ==
    (OnPage /\ inputs = DefaultInputs) =>
        /\ calc.marketingBudget = Above64(Num64(980000, 1), 1)
        /\ calc.contentBudget = Above64(Num64(196000, 1), 1)
        /\ calc.demoBudgetYear1 = Above64(Num64(98000, 1), 1)
        /\ calc.replacedProduction = Above64(Num64(58800, 1), 1)
        /\ calc.demoBudgetYear2 = Above64(Num64(39200, 1), 1)
        /\ calc.annualSavings = Above64(Num64(58800, 1), 1)
        /\ calc.reductionPct = Num64(6, 10)
        /\ calc.roi2yBase = Above64(Num64(176, 1000), 6)
        /\ calc.scenarioResults[1].incrementalSales = Num64(35000, 1)
        /\ calc.scenarioResults[1].incrementalProfit = Num64(14000, 1)
        /\ calc.scenarioResults[1].roi2yTotal = Num64(456, 1000)

\* The default configuration has been calculated again after other
\* configurations: scenario A has its default sales uplift and the
\* marketing budget is not 980,000.
C13_Witness ==
    /\ OnPage
    /\ firstCalc.between
    /\ inputs = DefaultInputs
    /\ inputs.scenarios[1].salesUplift = Num64(25, 10000)
    /\ calc.marketingBudget # Num64(980000, 1)
    /\ calc.scenarioResults[1].roi2yTotal = Num64(456, 1000)

\* ------------------------------------------------------------------------
\* Properties of the input fields (EditSpec)
\* ------------------------------------------------------------------------

\* x is a finite number that is not negative.
FiniteNonNegative(x) == isFinite(x) /\ x.k >= 0

\* C20: after any sequence of user edits of any input field, every input
\* value handed to the calculation is finite and non-negative.
C20_InputsFiniteNonNegative ==
    OnPage =>
        /\ FiniteNonNegative(inputs.revenue)
        /\ FiniteNonNegative(inputs.investmentYear1)
        /\ \A name \in PercentFields : FiniteNonNegative(inputs[name])
        /\ \A i \in 1..Len(inputs.scenarios), name \in ScenarioFields :
              FiniteNonNegative(inputs.scenarios[i][name])

\* Texts that do not parse to a finite number: "abc" and "Infinity".
InvalidTexts == {[kind |-> "junk"], String(Infinity)}

NoFieldEdited == OnPage /\ focus = NoFocus

\* C21: entering invalid text (text that does not parse to a finite number)
\* into any input field falls back to the last valid value: the stored
\* inputs after the edit is committed equal the stored inputs before it.
C21_InvalidTextKeepsStoredInput ==
    NoFieldEdited =>
        \A text \in InvalidTexts :
            /\ AmountOf(text, inputs.revenue) = inputs.revenue
            /\ AmountOf(text, inputs.investmentYear1) = inputs.investmentYear1
            /\ \A f \in StableFields :
                  onValue(inputs, f, BlurNext(text, ValueProp(inputs, f)))
                      = inputs

\* C29: focusing a percentage field and leaving it without changing its
\* text leaves the stored fraction unchanged, for every stored value that
\* earlier edits can produce.
C29_FocusBlurKeepsFraction ==
    NoFieldEdited =>
        \A f \in StableFields :
            \A value \in {ValueProp(inputs, f)} :
                \A text \in {FocusDraft(value)} :
                    \A next \in {BlurNext(text, value)} :
                        onValue(inputs, f, next) = inputs

\* The stored values behind the StableNumberInput fields.
StableValues(in) == [f \in StableFields |-> ValueProp(in, f)]

BeingEdited == OnPage /\ focus # NoFocus

\* C28: in a StableNumberInput, typing changes only the local draft; the
\* stored input, and with it the results, changes only when the field is
\* left; while the field is being edited the draft is the text put there on
\* focus or the text typed, never the formatted stored value.
C28_DraftIsLocal ==
    [][/\ (BeingEdited /\ focus' # NoFocus) =>
              (inputs' = inputs /\ calc' = calc)
       /\ (OnPage /\ StableValues(inputs') # StableValues(inputs)) =>
              (focus # NoFocus /\ focus' = NoFocus)
       /\ (OnPage /\ focus' # NoFocus) =>
              draft' \in TypedTexts \cup {FocusDraft(ValueProp(inputs, focus'))}
      ]_vars

\* A field being edited holds a typed text that differs from the text its
\* stored value gives, and the stored inputs are still the default ones.
C28_Witness ==
    /\ BeingEdited
    /\ draft \in TypedTexts
    /\ draft # FocusDraft(ValueProp(inputs, focus))
    /\ inputs = DefaultInputs

UniqueNames(s) == \A i, j \in DOMAIN s : s[i].name = s[j].name => i = j

\* C27: setScenario(idx, patch) changes only the patched fields of scenario
\* idx: the length of the list, the order and names of the scenarios and
\* every field of every other scenario stay as they were, so the names stay
\* unique after any sequence of edits.
C27_SetScenarioFrame ==
    /\ [](OnPage => UniqueNames(inputs.scenarios))
    /\ [][OnPage =>
            /\ Len(inputs'.scenarios) = Len(inputs.scenarios)
            /\ \A i \in DOMAIN inputs.scenarios :
                  /\ DOMAIN inputs'.scenarios[i] = DOMAIN inputs.scenarios[i]
                  /\ inputs'.scenarios[i].name = inputs.scenarios[i].name
                  /\ \A name \in ScenarioFields :
                        inputs'.scenarios[i][name] # inputs.scenarios[i][name]
                            => focus = [kind |-> "scenario", idx |-> i,
                                        name |-> name]
         ]_vars

\* One scenario field was edited: one row differs from the default rows, in
\* one field.
C27_Witness ==
    /\ NoFieldEdited
    /\ \E i \in DOMAIN DefaultScenarios, name \in ScenarioFields :
          /\ inputs.scenarios[i][name] # DefaultScenarios[i][name]
          /\ inputs.scenarios =
                 setScenario(DefaultScenarios, i,
                             name :> inputs.scenarios[i][name])

\* C22: the displayed results are never stale: after any sequence of
\* changes to any of the eight inputs, a change to a single field of a
\* single scenario included, the memoized results equal the calculation
\* applied to the current inputs.
C22_ResultsNeverStale == OnPage => calc = Calc(inputs)

\* Every scalar input and one field of scenario A were changed, and the
\* results on the page differ from those of the first render.
C22_Witness ==
    /\ OnPage
    /\ \A name \in DOMAIN inputs \ {"scenarios"} :
          inputs[name] # DefaultInputs[name]
    /\ inputs.scenarios[1].perfUplift # DefaultScenarios[1].perfUplift
    /\ inputs.scenarios[1].salesUplift = DefaultScenarios[1].salesUplift
    /\ inputs.scenarios[3] = DefaultScenarios[3]
    /\ calc # firstCalc.result

\* The results of the calculation: the nine base metrics and the four
\* metrics of each scenario.
ResultsOf(c) ==
    {c.marketingBudget, c.contentBudget, c.demoBudgetYear1,
     c.replacedProduction, c.demoBudgetYear2, c.annualSavings, c.reductionPct,
     c.paybackMonthsBase, c.roi2yBase}
        \cup UNION {{c.scenarioResults[i].incrementalSales,
                     c.scenarioResults[i].incrementalProfit,
                     c.scenarioResults[i].roi2yTotal,
                     c.scenarioResults[i].paybackMonthsUpside} :
                    i \in 1..Len(c.scenarioResults)}

NonNegativeInput(x) == isFinite(x) /\ x.k >= 0

FiniteNonNegativeInputs(in) ==
    /\ \A name \in DOMAIN in \ {"scenarios"} : NonNegativeInput(in[name])
    /\ \A i \in 1..Len(in.scenarios) :
          /\ NonNegativeInput(in.scenarios[i].perfUplift)
          /\ NonNegativeInput(in.scenarios[i].salesUplift)

\* C24 (as stated): for finite non-negative inputs no result of the
\* calculation is NaN.
C24_NoNaN ==
    (Calculated /\ FiniteNonNegativeInputs(inputs)) =>
        \A x \in ResultsOf(calc) : ~isNaN(x)

\* The products of the calculation did not overflow.
ProductsFinite(c) ==
    /\ isFinite(c.marketingBudget)
    /\ isFinite(c.contentBudget)
    /\ isFinite(c.demoBudgetYear1)
    /\ isFinite(c.replacedProduction)
    /\ \A i \in 1..Len(c.scenarioResults) :
          isFinite(c.scenarioResults[i].incrementalSales)

\* C24 (amended): for finite non-negative inputs whose products
\* marketingBudget, contentBudget, demoBudgetYear1, replacedProduction and
\* incrementalSales are finite, no result of the calculation is NaN.
C24_NoNaNWithoutOverflow ==
    (Calculated /\ FiniteNonNegativeInputs(inputs) /\ ProductsFinite(calc)) =>
        \A x \in ResultsOf(calc) : ~isNaN(x)

\* A calculation in which the denominators demoBudgetYear1, investmentYear1
\* and annualSavings + incrementalProfit are all 0 although the revenue is
\* not.
C24_Witness ==
    /\ Calculated
    /\ FiniteNonNegativeInputs(inputs)
    /\ ProductsFinite(calc)
    /\ isZero(calc.demoBudgetYear1)
    /\ isZero(inputs.investmentYear1)
    /\ calc.reductionPct = Zero
    /\ \E i \in 1..Len(calc.scenarioResults) :
          /\ ~isZero(inputs.revenue)
          /\ calc.scenarioResults[i].incrementalProfit = Zero
          /\ calc.scenarioResults[i].paybackMonthsUpside = Infinity

\* C25: whenever demoBudgetYear1 is not 0, reductionPct equals the input
\* replacementPct.
C25_ReductionPctIsReplacementPct ==
    (Calculated /\ isFinite(calc.demoBudgetYear1)
                /\ ~isZero(calc.demoBudgetYear1)) =>
        calc.reductionPct = inputs.replacementPct

\* C26: for non-negative inputs every scenario has roi2yTotal >= roi2yBase
\* and paybackMonthsUpside <= paybackMonthsBase (the infinity sentinel being
\* greater than every number), with equality when the scenario's salesUplift
\* or grossMargin is 0.
C26_UpsideNeverWorse ==
    (Calculated /\ FiniteNonNegativeInputs(inputs)) =>
        \A i \in 1..Len(calc.scenarioResults) :
            /\ LessEq(calc.roi2yBase, calc.scenarioResults[i].roi2yTotal)
            /\ LessEq(calc.scenarioResults[i].paybackMonthsUpside,
                      calc.paybackMonthsBase)
            /\ (isZero(inputs.scenarios[i].salesUplift)
                    \/ isZero(inputs.grossMargin)) =>
                  /\ calc.scenarioResults[i].roi2yTotal = calc.roi2yBase
                  /\ calc.scenarioResults[i].paybackMonthsUpside
                        = calc.paybackMonthsBase

\* C23: the Year-1 investment field of the English page reads the
\* investmentYear1 state that the calculation reads and its handler sets
\* that state; every input field of the page is bound to a declared state
\* variable, so the page renders.
C23_InvestmentFieldBound ==
    /\ pc # "error"
    /\ pc = "en" =>
          \A f \in EnFields :
              /\ f.reads \in EnDeclared
              /\ f.calls \in EnDeclared
              /\ f.input = "investmentYear1" =>
                    (f.reads = "investmentYear1"
                        /\ f.calls = "setInvestmentYear1")

=============================================================================
